---- MODULE Spec2Model ----
(***************************************************************************)
(* alx-polly: polls, votes, tallies and the edit form.                     *)
(*                                                                         *)
(* The store is the relational schema with its row-level-security          *)
(* policies and foreign-key actions.  The server actions of                *)
(* app/lib/actions/poll-actions.ts are thin wrappers over the store; what  *)
(* they add (validation, error kinds, per-option counting) follows the     *)
(* natural-language specification.  The client components are the poll     *)
(* detail page (tally arithmetic) and the edit form.                       *)
(*                                                                         *)
(* Three specifications share the variables:                               *)
(*   Spec      the store under the server actions and account deletion     *)
(*   SpecForm  the edit form in front of updatePoll                        *)
(*   SpecPct   the tally arithmetic of the poll detail page                *)
(***************************************************************************)
EXTENDS Integers, Sequences, FiniteSets, TLC

VARIABLES
  users,        \* rows of auth.users (ids of the existing accounts)
  polls,        \* rows of table polls
  votes,        \* rows of table votes
  nextPollId,   \* ids handed out so far to polls (gen_random_uuid never repeats)
  nextVoteId,   \* ids handed out so far to votes
  last,         \* the request served last: the action and the error it returned
  form,         \* state of EditPollForm
  tally,        \* poll shown by PollDetailPage and what it renders
  calls,        \* the submitVote calls in flight, one per caller
  mw,           \* the request updateSession is given and the response it returns
  admin,        \* state of AdminPage
  page          \* state of PollDetailPage

vars == <<users, polls, votes, nextPollId, nextVoteId, last, form, tally,
          calls, mw, admin, page>>

pageVars == <<calls, mw, admin, page>>

storeVars == <<users, polls, votes, nextPollId, nextVoteId>>

(***************************************************************************)
(* Bounds of the model.                                                    *)
(***************************************************************************)
MaxPolls == 1      \* polls ever created in one behaviour
MaxVotes == 2      \* votes ever inserted in one behaviour
MaxCount == 23     \* largest per-option count drawn for the tally arithmetic
MaxEdits == 2      \* edits made in the edit form in one behaviour
MaxDeletes == 2    \* deletes started on the admin page in one behaviour
MaxRenders == 2    \* renders of the results of one loaded poll

(***************************************************************************)
(* Text.  A string is a sequence of characters; trim() drops leading and   *)
(* trailing white space.                                                   *)
(***************************************************************************)
WhiteSpace == {" "}

RECURSIVE TrimStart(_)
TrimStart(s) ==
  IF s # <<>> /\ Head(s) \in WhiteSpace THEN TrimStart(Tail(s)) ELSE s

RECURSIVE TrimEnd(_)
TrimEnd(s) ==
  IF s # <<>> /\ s[Len(s)] \in WhiteSpace THEN TrimEnd(SubSeq(s, 1, Len(s) - 1)) ELSE s

trim(s) == TrimEnd(TrimStart(s))

Filter(seq, Keep(_)) == SelectSeq(seq, Keep)

Map(seq, F(_)) == [i \in 1..Len(seq) |-> F(seq[i])]

(***************************************************************************)
(* IEEE-754 binary64 arithmetic, as far as getPercentage needs it.         *)
(* A positive double is a 53-bit significand h*2^36 + m*2^18 + l           *)
(* (2^16 <= h < 2^17) times 2^e.  Division and multiplication are          *)
(* correctly rounded, ties to even.                                        *)
(***************************************************************************)
RECURSIVE Pow2(_)
Pow2(n) == IF n = 0 THEN 1 ELSE 2 * Pow2(n - 1)

LimbBits == 18
TopBits == 17
Limb == Pow2(LimbBits)

\* doublings of c needed to reach t (c <= t): c * 2^k lies in [t, 2t)
RECURSIVE Shift(_, _)
Shift(c, t) == IF c >= t THEN 0 ELSE 1 + Shift(2 * c, t)

\* significand plus one unit in the last place
Increment(d) ==
  IF d.l + 1 < Limb THEN [d EXCEPT !.l = d.l + 1]
  ELSE IF d.m + 1 < Limb THEN [d EXCEPT !.l = 0, !.m = d.m + 1]
  ELSE IF d.h + 1 < Pow2(TopBits) THEN [d EXCEPT !.l = 0, !.m = 0, !.h = d.h + 1]
  ELSE [h |-> Pow2(TopBits - 1), m |-> 0, l |-> 0, e |-> d.e + 1]

\* guard is the first dropped bit, sticky says a later dropped bit is set
RoundNearestEven(d, guard, sticky) ==
  IF guard = 1 /\ (sticky \/ d.l % 2 = 1) THEN Increment(d) ELSE d

\* the double nearest to c / t, for integers 0 < c <= t
FDiv(c, t) ==
  LET k  == Shift(c, t)
      r0 == c * Pow2(k) - t
      h  == Pow2(TopBits - 1) + (r0 * Pow2(TopBits - 1)) \div t
      r1 == (r0 * Pow2(TopBits - 1)) % t
      m  == (r1 * Limb) \div t
      r2 == (r1 * Limb) % t
      l  == (r2 * Limb) \div t
      r3 == (r2 * Limb) % t
      g  == (2 * r3) \div t
      r4 == (2 * r3) % t
  IN RoundNearestEven([h |-> h, m |-> m, l |-> l, e |-> -52 - k], g, r4 # 0)

\* the double nearest to d * 100
FMul100(d) ==
  LET p0   == 100 * d.l
      p1   == 100 * d.m + p0 \div Limb
      ph   == 100 * d.h + p1 \div Limb
      pm   == p1 % Limb
      pl   == p0 % Limb
      s    == IF ph >= Pow2(TopBits + 6) THEN 7 ELSE 6
      keep == Pow2(LimbBits - s)
      cut  == Pow2(s)
      r    == [h |-> ph \div cut,
               m |-> pm \div cut + (ph % cut) * keep,
               l |-> pl \div cut + (pm % cut) * keep,
               e |-> d.e + s]
  IN RoundNearestEven(r, (pl \div Pow2(s - 1)) % 2, pl % Pow2(s - 1) # 0)

\* Math.round of a double below 2^7: floor(x + 1/2), with no rounding error
MathRound(d) ==
  LET f == -d.e
  IN IF f > 53 THEN 0
     ELSE (d.h \div Pow2(f - 36)) + ((d.h \div Pow2(f - 37)) % 2)

\* c * 100 / t rounded to the nearest integer, halves up, in exact arithmetic
RoundHalfUp(c, t) == (200 * c + t) \div (2 * t)

(***************************************************************************)
(* PollDetailPage: the tally arithmetic.                                   *)
(***************************************************************************)
RECURSIVE SumVotes(_)
SumVotes(options) ==
  IF options = <<>> THEN 0 ELSE Head(options).votes + SumVotes(Tail(options))

\* variant: the reduce loses the first option
totalVotesSkipFirst(poll) == SumVotes(Tail(poll.options))

\* variant: the sum starts from the total of the render before
totalVotesKeepsSum(poll) == poll.total + SumVotes(poll.options)

\* poll?.options?.reduce((sum, option) => sum + option.votes, 0) || 0
totalVotes(poll) == SumVotes(poll.options)

\* variant: the share of the total is not taken
getPercentageUnscaled(count, total) == IF total = 0 THEN 0 ELSE count * 100

\* if (totalVotes === 0) return 0; return Math.round((votes / totalVotes) * 100)
\* (0 / total * 100 is exactly 0; FDiv takes the positive counts)
getPercentage(count, total) ==
  IF total = 0 THEN 0
  ELSE IF count = 0 THEN 0
  ELSE MathRound(FMul100(FDiv(count, total)))

(***************************************************************************)
(* Identities and inputs.                                                  *)
(***************************************************************************)
Users == {"u1", "u2", "adm"}

\* holders of the admin capability
Admins == {"adm"}

\* auth.uid() of a request without a session; also the SQL NULL of votes.user_id
NULL == "NULL"

None == "None"

Red == <<"R">>
Blue == <<"B">>
Green == <<"G">>
Blank == <<" ">>
PadRed == <<" ", "R", " ">>
Q1 == <<"Q">>
Q2 == <<"Q", "2">>

\* "Provide at least 2 options for your poll. You can add up to 10 options."
MinOptions == 2
MaxOptions == 10

Repeat(text, n) == [i \in 1..n |-> text]

QuestionInputs == {Q1, Q2, Blank}

OptionInputs == { <<Red, Blue>>, <<PadRed, Blue, Green>>, <<Red, Blank>> }

\* option lists below the cap, at the cap and one beyond it; one has an entry
\* beyond the cap that is blank
CapInputs ==
  { Repeat(Green, MaxOptions - 1), Repeat(Red, MaxOptions), Repeat(Red, MaxOptions + 1),
    Repeat(Blue, MaxOptions) \o <<Blank>> }

\* the requests of createPoll and of updatePoll: a question and an option list
CreateInputs ==
  {[question |-> Q1, options |-> o] : o \in OptionInputs}
    \cup {[question |-> Blank, options |-> <<Red, Blue>>]}

UpdateInputs ==
  {[question |-> Q2, options |-> o] : o \in OptionInputs}
    \cup {[question |-> Blank, options |-> <<Red, Blue>>]}

IndexInputs == {-1, 0, 2}

\* who creates polls, who votes, whose account is deleted in the behaviours explored
Creators == {"u1", "u2", NULL}
Voters == {"u2"}
Deletable == {"u2"}

(***************************************************************************)
(* The store: tables, row-level-security policies, foreign-key actions.    *)
(***************************************************************************)
PollRow(id, owner, question, options) ==
  [id |-> id, user_id |-> owner, question |-> question, options |-> options]

VoteRow(id, pollId, uid, optionIndex, at) ==
  [id |-> id, poll_id |-> pollId, user_id |-> uid, option_index |-> optionIndex,
   created_at |-> at]

PollExists(id) == \E p \in polls : p.id = id

PollById(id) == CHOOSE p \in polls : p.id = id

\* variant: a poll is visible to its owner only
PollsSelectPolicyOwner(uid, row) == uid # NULL /\ uid = row.user_id

\* "Anyone can view polls"
PollsSelectPolicy(uid, row) == TRUE

\* "Authenticated users can create polls": WITH CHECK (auth.uid() = user_id)
PollsInsertPolicy(uid, row) == uid # NULL /\ uid = row.user_id

\* variant: any signed-in user may update any poll
PollsUpdatePolicyAnyUser(uid, old, new) == uid # NULL

\* "Users can update their own polls": USING and WITH CHECK (auth.uid() = user_id)
PollsUpdatePolicy(uid, old, new) ==
  uid # NULL /\ uid = old.user_id /\ uid = new.user_id

\* "Users can delete their own polls": USING (auth.uid() = user_id)
PollsDeletePolicy(uid, row) == uid # NULL /\ uid = row.user_id

\* "Anyone can view votes"
VotesSelectPolicy(uid, row) == TRUE

\* "Anyone can vote": WITH CHECK (true)
VotesInsertPolicy(uid, row) == TRUE

\* "No UPDATE or DELETE policies = no one can modify votes"
VotesUpdatePolicy(uid, row) == FALSE
VotesDeletePolicy(uid, row) == FALSE

\* variant: the foreign key without its ON DELETE CASCADE action
NoCascadePollDelete(voteRows, gonePolls) == voteRows

\* votes.poll_id REFERENCES polls(id) ON DELETE CASCADE
CascadePollDelete(voteRows, gonePolls) ==
  {v \in voteRows : v.poll_id \notin gonePolls}

\* votes.user_id REFERENCES auth.users(id) ON DELETE SET NULL
SetNullUserDelete(voteRows, uid) ==
  {IF v.user_id = uid THEN [v EXCEPT !.user_id = NULL] ELSE v : v \in voteRows}

\* variant: the poll keeps one row, which the last writer replaces
LastWriterWinsVote(voteRows, row) ==
  {v \in voteRows : v.poll_id # row.poll_id} \cup {row}

\* variant: an upsert on (poll_id, user_id) replaces the voter's earlier vote
UpsertVote(voteRows, row) ==
  {v \in voteRows : ~(v.poll_id = row.poll_id /\ v.user_id = row.user_id)} \cup {row}

\* variant: UNIQUE (poll_id, user_id) in force, a second vote is dropped
InsertVoteUnique(voteRows, row) ==
  IF \E v \in voteRows : v.poll_id = row.poll_id /\ v.user_id = row.user_id
  THEN voteRows ELSE voteRows \cup {row}

\* INSERT INTO votes: a new row, every other row as it was
InsertVote(voteRows, row) == voteRows \cup {row}

\* polls.user_id REFERENCES auth.users(id) ON DELETE CASCADE
PollsOfUser(uid) == {p \in polls : p.user_id = uid}

(***************************************************************************)
(* Server actions (app/lib/actions/poll-actions.ts).                       *)
(***************************************************************************)
NonEmpty(text) == trim(text) # <<>>

\* the options that are non-empty after trimming, trimmed, in submitted order
ValidOptions(options) == Map(Filter(options, NonEmpty), trim)

\* variant: no lower limit on the number of options
ValidationErrorOfNoMin(question, options) ==
  IF trim(question) = <<>> THEN "ValidationError"
  ELSE IF Len(ValidOptions(options)) > MaxOptions THEN "ValidationError"
  ELSE None

\* variant: no cap on the number of options
ValidationErrorOfNoCap(question, options) ==
  IF trim(question) = <<>> THEN "ValidationError"
  ELSE IF Len(ValidOptions(options)) < MinOptions THEN "ValidationError"
  ELSE None

\* validation shared by createPoll and updatePoll
ValidationErrorOf(question, options) ==
  IF trim(question) = <<>> THEN "ValidationError"
  ELSE IF Len(ValidOptions(options)) < MinOptions THEN "ValidationError"
  ELSE IF Len(ValidOptions(options)) > MaxOptions THEN "ValidationError"
  ELSE None

CreatePollError(caller, question, options) ==
  IF ValidationErrorOf(question, options) # None THEN "ValidationError"
  ELSE IF ~PollsInsertPolicy(caller, PollRow(0, caller, question, options))
       THEN "AuthorizationError"
  ELSE None

UpdatePollError(caller, id, question, options) ==
  IF ~PollExists(id) THEN "NotFoundError"
  ELSE IF ~PollsUpdatePolicy(caller, PollById(id), PollById(id)) THEN "AuthorizationError"
  ELSE ValidationErrorOf(question, options)

DeletePollError(caller, id) ==
  IF ~PollExists(id) THEN "NotFoundError"
  ELSE IF ~PollsDeletePolicy(caller, PollById(id)) THEN "AuthorizationError"
  ELSE None

\* variant: only the lower bound is checked
NonNegativeOptionIndex(poll, optionIndex) == optionIndex >= 0

ValidOptionIndex(poll, optionIndex) ==
  optionIndex >= 0 /\ optionIndex < Len(poll.options)

SubmitVoteError(caller, id, optionIndex) ==
  IF ~PollExists(id) THEN "NotFoundError"
  ELSE IF ~ValidOptionIndex(PollById(id), optionIndex) THEN "ValidationError"
  ELSE IF ~VotesInsertPolicy(caller, VoteRow(0, id, caller, optionIndex, 0))
       THEN "AuthorizationError"
  ELSE None

\* the rows of polls after a successful updatePoll
UpdatedPolls(id, question, options) ==
  {IF p.id = id THEN [p EXCEPT !.question = trim(question),
                               !.options = ValidOptions(options)]
   ELSE p : p \in polls}

\* variant: an option also collects the votes cast for any later index
CountVotesFrom(id, i) ==
  Cardinality({v \in votes : v.poll_id = id /\ v.option_index >= i})

\* count(i): the votes of the poll whose option_index is i (0-based)
CountVotes(id, i) ==
  Cardinality({v \in votes : v.poll_id = id /\ v.option_index = i})

\* getPollById: the poll with one {id, text, votes} per option, or an error
getPollById(id) ==
  IF ~PollExists(id) THEN [poll |-> NULL, error |-> "NotFoundError"]
  ELSE LET p == PollById(id)
       IN [poll  |-> [id |-> p.id, user_id |-> p.user_id, question |-> p.question,
                      options |-> [i \in 1..Len(p.options) |->
                                     [id |-> i, text |-> p.options[i],
                                      votes |-> CountVotes(id, i - 1)]]],
           error |-> None]

\* the identities a request can carry: an existing account or none
Callers == users \cup {NULL}

createPollCall(caller, question, options) ==
  LET err == CreatePollError(caller, question, options)
  IN /\ last' = [op |-> "createPoll", error |-> err]
     /\ IF err = None
        THEN /\ polls' = polls \cup {PollRow(nextPollId + 1, caller, trim(question),
                                             ValidOptions(options))}
             /\ nextPollId' = nextPollId + 1
        ELSE UNCHANGED <<polls, nextPollId>>

updatePollCall(caller, id, question, options) ==
  LET err == UpdatePollError(caller, id, question, options)
  IN /\ last' = [op |-> "updatePoll", error |-> err]
     /\ polls' = IF err = None THEN UpdatedPolls(id, question, options) ELSE polls

createPoll(caller, question, options) ==
  /\ nextPollId < MaxPolls
  /\ createPollCall(caller, question, options)
  /\ UNCHANGED <<users, votes, nextVoteId, form, tally, pageVars>>

updatePoll(caller, id, question, options) ==
  /\ updatePollCall(caller, id, question, options)
  /\ UNCHANGED <<users, votes, nextPollId, nextVoteId, form, tally, pageVars>>

deletePoll(caller, id) ==
  /\ LET err == DeletePollError(caller, id)
     IN /\ last' = [op |-> "deletePoll", error |-> err]
        /\ IF err = None
           THEN /\ polls' = {p \in polls : p.id # id}
                /\ votes' = CascadePollDelete(votes, {id})
           ELSE UNCHANGED <<polls, votes>>
  /\ UNCHANGED <<users, nextPollId, nextVoteId, form, tally, pageVars>>

submitVote(caller, id, optionIndex) ==
  /\ nextVoteId < MaxVotes
  /\ LET err == SubmitVoteError(caller, id, optionIndex)
     IN /\ last' = [op |-> "submitVote", error |-> err]
        /\ IF err = None
           THEN /\ votes' = InsertVote(votes, VoteRow(nextVoteId + 1, id, caller,
                                                      optionIndex, nextVoteId + 1))
                /\ nextVoteId' = nextVoteId + 1
           ELSE UNCHANGED <<votes, nextVoteId>>
  /\ UNCHANGED <<users, polls, nextPollId, form, tally, pageVars>>

\* an account is removed from auth.users; the foreign keys do the rest
deleteUser(uid) ==
  /\ uid \in users
  /\ users' = users \ {uid}
  /\ polls' = polls \ PollsOfUser(uid)
  /\ votes' = SetNullUserDelete(
                CascadePollDelete(votes, {p.id : p \in PollsOfUser(uid)}), uid)
  /\ last' = [op |-> "deleteUser", error |-> None]
  /\ UNCHANGED <<nextPollId, nextVoteId, form, tally, pageVars>>

NoCall == [op |-> "none", error |-> None]

NoRequest == [sent |-> FALSE, question |-> <<>>, options |-> <<>>]

NoReply == [state |-> "none", error |-> None]

\* a JavaScript value handed to normalizeOptions
JsMissing == [kind |-> "missing", items |-> <<>>]
JsArray(items) == [kind |-> "array", items |-> items]
JsString(text) == [kind |-> "string", text |-> text]
JsObject(text) == [kind |-> "object", text |-> text]

FormClosed ==
  [open |-> FALSE, poll |-> 0, user |-> NULL, stored |-> JsMissing,
   question |-> <<>>, options |-> <<>>,
   error |-> None, isSubmitting |-> FALSE, pushed |-> FALSE, edits |-> 0,
   call |-> NoRequest, reply |-> NoReply]

TallyIdle ==
  [shown |-> FALSE, renders |-> 0, options |-> <<>>, total |-> 0, percentages |-> <<>>]

\* no submitVote call is in flight
NoVoteCall ==
  [state |-> "idle", poll |-> 0, optionIndex |-> 0, votesSeen |-> 0, error |-> None]

NoVoteCalls == [c \in Users |-> NoVoteCall]

\* supabase.auth.getUser() has not been called
NoOutcome == [kind |-> "none", user |-> NULL, error |-> None]

\* no request has reached the middleware
MwIdle ==
  [state |-> "idle", pathname |-> <<>>, session |-> NULL, followed |-> FALSE,
   checked |-> FALSE, outcome |-> NoOutcome, response |-> "none", location |-> <<>>]

\* AdminPage is not mounted; the values are those of its useState calls
AdminClosed ==
  [open |-> FALSE, user |-> NULL, polls |-> <<>>, loading |-> TRUE, deleteLoading |-> 0,
   fetching |-> FALSE, fetched |-> "none", deletes |-> <<>>]

\* an empty params.id
NoId == 0

\* poll and selectedOptionIndex when they are null
NoPoll == [id |-> NoId, user_id |-> NULL, question |-> <<>>, options |-> <<>>]
NoIndex == -1

\* no answer of getPollById and of hasUserVoted yet; at is the number of votes
\* inserted so far when the server answered
NoPollReply == [kind |-> "none", poll |-> NoPoll, error |-> None, at |-> 0]
NoCheckReply == [kind |-> "none", hasVoted |-> FALSE, at |-> 0]

\* handleVote has not been called
NoPageVote ==
  [state |-> "idle", poll |-> NoId, optionIndex |-> NoIndex, threw |-> FALSE,
   error |-> None, at |-> 0, got |-> NoPollReply]

\* PollDetailPage is not mounted; the values are those of its useState calls,
\* fetches are the runs of fetchPoll, vote is the run of handleVote, submitted
\* counts its submitVote calls that returned no error
PageClosed ==
  [open |-> FALSE, file |-> "none", id |-> NoId, session |-> NULL, user |-> NULL,
   poll |-> NoPoll, loading |-> TRUE, selectedOptionIndex |-> NoIndex,
   hasVoted |-> FALSE, isSubmitting |-> FALSE, error |-> None,
   fetches |-> <<>>, vote |-> NoPageVote, submitted |-> 0]

PagesIdle ==
  /\ calls = NoVoteCalls
  /\ mw = MwIdle
  /\ admin = AdminClosed
  /\ page = PageClosed

Init ==
  /\ users = Users
  /\ polls = {}
  /\ votes = {}
  /\ nextPollId = 0
  /\ nextVoteId = 0
  /\ last = NoCall
  /\ form = FormClosed
  /\ tally = TallyIdle
  /\ PagesIdle

PollIds == 1..MaxPolls

Next ==
  \/ \E c \in Callers \cap Creators, r \in CreateInputs :
       createPoll(c, r.question, r.options)
  \/ \E c \in Callers, id \in PollIds, r \in UpdateInputs :
       updatePoll(c, id, r.question, r.options)
  \/ \E c \in Callers, id \in PollIds : deletePoll(c, id)
  \/ \E c \in Callers \cap Voters, id \in PollIds, i \in IndexInputs :
       submitVote(c, id, i)
  \/ \E u \in Deletable : deleteUser(u)

Spec == Init /\ [][Next]_vars

(***************************************************************************)
(* SpecPct: PollDetailPage renders the tally of a poll it has loaded.      *)
(***************************************************************************)
OptionView(i, count) == [id |-> i, text |-> Red, votes |-> count]

\* the option lists getPollById can hand to the page: 2 or 3 options with their counts
TallyInputs ==
  { <<OptionView(1, a), OptionView(2, b)>> : a \in 0..MaxCount, b \in 0..MaxCount }
  \cup { <<OptionView(1, a), OptionView(2, b), OptionView(3, c)>> :
           a \in 0..MaxCount, b \in 0..MaxCount, c \in 0..MaxCount }

\* the store while the page renders: a poll and a vote on it
PctPolls == {PollRow(1, "u1", Q1, <<Red, Blue>>)}
PctVotes == {VoteRow(1, 1, "u2", 0, 1)}

InitPct ==
  /\ users = Users
  /\ polls = PctPolls
  /\ votes = PctVotes
  /\ nextPollId = 1
  /\ nextVoteId = 1
  /\ last = NoCall
  /\ form = FormClosed
  /\ tally \in {[TallyIdle EXCEPT !.options = o] : o \in TallyInputs}
  /\ PagesIdle

\* the results branch of the page: one percentage per option and the total;
\* every render of the component computes them anew from the poll it holds
RenderResults ==
  /\ tally.renders < MaxRenders
  /\ tally' = [shown       |-> TRUE,
               renders     |-> tally.renders + 1,
               options     |-> tally.options,
               total       |-> totalVotes(tally),
               percentages |-> [i \in 1..Len(tally.options) |->
                                  getPercentage(tally.options[i].votes, totalVotes(tally))]]
  /\ UNCHANGED <<users, polls, votes, nextPollId, nextVoteId, last, form, pageVars>>

NextPct == RenderResults

SpecPct == InitPct /\ [][NextPct]_vars

(***************************************************************************)
(* SpecCap: createPoll and updatePoll with option lists around the cap.    *)
(***************************************************************************)
\* the option lists that pass the lower limit
EnoughOptionInputs == {o \in OptionInputs : Len(ValidOptions(o)) >= MinOptions}

NextCap ==
  \/ \E c \in Callers \cap Creators, q \in {Q1, Q2}, o \in OptionInputs \cup CapInputs :
       createPoll(c, q, o)
  \/ \E c \in Callers, id \in PollIds, q \in {Q1, Q2},
          o \in EnoughOptionInputs \cup CapInputs :
       updatePoll(c, id, q, o)
  \/ \E c \in Callers, id \in PollIds : deletePoll(c, id)

SpecCap == Init /\ [][NextCap]_vars

(***************************************************************************)
(* EditPollPage and EditPollForm.                                          *)
(***************************************************************************)
\* the options of a poll as getPollById returns them: objects with a text
JsOptionsOf(poll) ==
  JsArray([i \in 1..Len(poll.options) |-> JsObject(poll.options[i].text)])

\* variant: the default is a single empty option
normalizeOptionsOneDefault(options) ==
  IF options.kind # "array" THEN <<<<>>>>
  ELSE IF Len(options.items) > 0 /\ options.items[1].kind = "object"
       THEN [i \in 1..Len(options.items) |-> options.items[i].text]
  ELSE IF Len(options.items) > 0 /\ options.items[1].kind = "string"
       THEN [i \in 1..Len(options.items) |-> options.items[i].text]
  ELSE <<<<>>>>

normalizeOptions(options) ==
  IF options.kind # "array" THEN <<<<>>, <<>>>>
  ELSE IF Len(options.items) > 0 /\ options.items[1].kind = "object"
       THEN [i \in 1..Len(options.items) |-> options.items[i].text]
  ELSE IF Len(options.items) > 0 /\ options.items[1].kind = "string"
       THEN [i \in 1..Len(options.items) |-> options.items[i].text]
  ELSE <<<<>>, <<>>>>

MinOptionsMessage == "Please provide at least 2 options for your poll."
QuestionMessage == "Please provide a question for your poll."
UnexpectedMessage == "An unexpected error occurred. Please try again."

\* options.filter(option => option.trim() !== '')
validOptions(options) == Filter(options, NonEmpty)

\* variant: the checks compare the raw text with ''
SubmitErrorNoTrim(question, options) ==
  IF Len(SelectSeq(options, LAMBDA o : o # <<>>)) < MinOptions THEN MinOptionsMessage
  ELSE IF question = <<>> THEN QuestionMessage
  ELSE None

\* the two checks of handleSubmit, in its order
SubmitError(question, options) ==
  IF Len(validOptions(options)) < MinOptions THEN MinOptionsMessage
  ELSE IF trim(question) = <<>> THEN QuestionMessage
  ELSE None

\* variant: the options are appended as they were typed
FormDataOfUntrimmed(question, options) ==
  [sent |-> TRUE, question |-> trim(question), options |-> validOptions(options)]

\* the FormData handed to updatePoll
FormDataOf(question, options) ==
  [sent |-> TRUE, question |-> trim(question), options |-> Map(validOptions(options), trim)]

\* the inputs marked required hold text, or the browser does not submit the form
RequiredFilled ==
  /\ form.question # <<>>
  /\ \A i \in 1..Len(form.options) : i <= 2 => form.options[i] # <<>>

TextInputs == {<<>>, Blank, PadRed}

Editors == {"u1", "u2"}

FormIdle == form.open /\ ~form.pushed

\* the edit page of poll id is requested by a signed-in user
EditPollPage(user, id) ==
  /\ ~form.call.sent
  /\ LET got == getPollById(id)
     IN form' = IF got.error # None
                THEN [FormClosed EXCEPT !.edits = form.edits]
                ELSE [FormClosed EXCEPT !.open = TRUE, !.poll = id, !.user = user,
                                        !.stored = JsOptionsOf(got.poll),
                                        !.question = got.poll.question,
                                        !.options = normalizeOptions(JsOptionsOf(got.poll)),
                                        !.edits = form.edits]
  /\ UNCHANGED <<users, polls, votes, nextPollId, nextVoteId, last, tally, pageVars>>

setQuestion(value) ==
  /\ FormIdle
  /\ form.edits < MaxEdits
  /\ form' = [form EXCEPT !.question = value, !.edits = @ + 1]
  /\ UNCHANGED <<users, polls, votes, nextPollId, nextVoteId, last, tally, pageVars>>

handleOptionChange(idx, value) ==
  /\ FormIdle
  /\ form.edits < MaxEdits
  /\ idx \in 1..Len(form.options)
  /\ form' = [form EXCEPT !.options[idx] = value, !.edits = @ + 1]
  /\ UNCHANGED <<users, polls, votes, nextPollId, nextVoteId, last, tally, pageVars>>

\* the button is rendered while options.length < 10
addOption ==
  /\ FormIdle
  /\ form.edits < MaxEdits
  /\ Len(form.options) < MaxOptions
  /\ form' = [form EXCEPT !.options = Append(@, <<>>), !.edits = @ + 1]
  /\ UNCHANGED <<users, polls, votes, nextPollId, nextVoteId, last, tally, pageVars>>

\* the buttons are rendered while options.length > 2, and the handler checks again
removeOption(idx) ==
  /\ FormIdle
  /\ form.edits < MaxEdits
  /\ idx \in 1..Len(form.options)
  /\ Len(form.options) > MinOptions
  /\ form' = [form EXCEPT
                !.options = [i \in 1..(Len(@) - 1) |-> IF i < idx THEN @[i] ELSE @[i + 1]],
                !.edits = @ + 1]
  /\ UNCHANGED <<users, polls, votes, nextPollId, nextVoteId, last, tally, pageVars>>

\* handleSubmit up to its await: the checks, then the call of updatePoll
handleSubmit ==
  /\ FormIdle
  /\ ~form.isSubmitting
  /\ RequiredFilled
  /\ LET err == SubmitError(form.question, form.options)
     IN form' = IF err # None
                THEN [form EXCEPT !.error = err, !.isSubmitting = FALSE]
                ELSE [form EXCEPT !.error = None, !.isSubmitting = TRUE,
                                  !.call = FormDataOf(form.question, form.options)]
  /\ UNCHANGED <<users, polls, votes, nextPollId, nextVoteId, last, tally, pageVars>>

\* the server runs updatePoll for the form's request, as the user of the session
updatePollServed ==
  /\ form.call.sent
  /\ form.reply.state = "none"
  /\ LET caller == IF form.user \in users THEN form.user ELSE NULL
     IN /\ updatePollCall(caller, form.poll, form.call.question, form.call.options)
        /\ form' = [form EXCEPT !.reply = [state |-> "returned", error |-> last'.error]]
  /\ UNCHANGED <<users, votes, nextPollId, nextVoteId, tally, pageVars>>

\* the call fails before it reaches the server: the await throws
updatePollThrows ==
  /\ form.call.sent
  /\ form.reply.state = "none"
  /\ form' = [form EXCEPT !.reply = [state |-> "threw", error |-> None]]
  /\ UNCHANGED <<users, polls, votes, nextPollId, nextVoteId, last, tally, pageVars>>

\* handleSubmit after its await: result, catch and finally
handleSubmitResume ==
  /\ form.reply.state # "none"
  /\ form' = [form EXCEPT
                !.error = IF form.reply.state = "threw" THEN UnexpectedMessage
                          ELSE form.reply.error,
                !.pushed = (form.reply.state = "returned" /\ form.reply.error = None),
                !.isSubmitting = FALSE,
                !.call = NoRequest,
                !.reply = NoReply]
  /\ UNCHANGED <<users, polls, votes, nextPollId, nextVoteId, last, tally, pageVars>>

NextEdit ==
  \/ \E o \in OptionInputs : createPoll("u1", Q1, o)
  \/ \E u \in users \cap Editors, id \in PollIds : EditPollPage(u, id)
  \/ \E q \in TextInputs : setQuestion(q)
  \/ \E i \in 1..MaxOptions, t \in TextInputs : handleOptionChange(i, t)
  \/ addOption
  \/ \E i \in 1..MaxOptions : removeOption(i)
  \/ handleSubmit
  \/ updatePollServed
  \/ updatePollThrows
  \/ handleSubmitResume

SpecEdit == Init /\ [][NextEdit]_vars

(***************************************************************************)
(* SpecForm: EditPollForm rendered with a poll whose options column holds  *)
(* any value of the shapes normalizeOptions tells apart; the table puts no *)
(* constraint on the column.                                               *)
(***************************************************************************)
StringArray(n) == JsArray([i \in 1..n |-> JsString(Red)])
ObjectArray(n) == JsArray([i \in 1..n |-> JsObject(Blue)])

\* lengths of the stored arrays: around both limits
StoredLengths == {1, MinOptions, MaxOptions - 1, MaxOptions, MaxOptions + 1}

StoredOptionInputs ==
  {JsMissing, JsArray(<<>>)}
    \cup {StringArray(n) : n \in StoredLengths}
    \cup {ObjectArray(n) : n \in StoredLengths}

\* the component is mounted with the poll it is handed
EditPollForm(user, id, stored) ==
  /\ ~form.open
  /\ ~form.call.sent
  /\ form' = [FormClosed EXCEPT !.open = TRUE, !.poll = id, !.user = user,
                                !.stored = stored,
                                !.question = Q1,
                                !.options = normalizeOptions(stored),
                                !.edits = form.edits]
  /\ UNCHANGED <<users, polls, votes, nextPollId, nextVoteId, last, tally, pageVars>>

NextForm ==
  \/ \E stored \in StoredOptionInputs : EditPollForm("u1", 1, stored)
  \/ \E i \in 1..(MaxOptions + 1), t \in TextInputs : handleOptionChange(i, t)
  \/ addOption
  \/ \E i \in 1..(MaxOptions + 1) : removeOption(i)

SpecForm == Init /\ [][NextForm]_vars

(***************************************************************************)
(* Properties of the store and the server actions (Spec).                  *)
(***************************************************************************)
PollExistsIn(rows, id) == \E p \in rows : p.id = id

InRange(p, v) == v.option_index >= 0 /\ v.option_index < Len(p.options)

VotesOf(p) == {v \in votes : v.poll_id = p.id}

\* C1: for every poll with at least 2 options the total the page displays, the
\* sum of the per-option counts, is the number of the poll's votes whose
\* option_index lies in [0, N); an out-of-range vote adds to no count.
C1_TotalIsInRangeVotes ==
  \A p \in polls :
    Len(p.options) >= 2 =>
      /\ totalVotes(getPollById(p.id).poll) = Cardinality({v \in VotesOf(p) : InRange(p, v)})
      /\ \A v \in VotesOf(p) :
           ~InRange(p, v) => \A i \in 1..Len(p.options) : v.option_index # i - 1

\* a poll that has a counted vote and a vote left out of range by a shorter option list
C1_Witness ==
  \E p \in polls :
    /\ \E v \in VotesOf(p) : InRange(p, v)
    /\ \E v \in VotesOf(p) : ~InRange(p, v)

\* C6: an updatePoll by a caller who is not the owner returns an authorization
\* error and leaves every row of polls as it was.  (A step that is anything
\* else is not an updatePoll of a caller who is not the owner.)
C6_Step ==
  (last'.op = "updatePoll" /\ ~(last'.error = "AuthorizationError" /\ polls' = polls)) =>
    \A id \in PollIds :
      PollExists(id) =>
        \A c \in Callers \ {PollById(id).user_id}, r \in UpdateInputs :
          ~updatePoll(c, id, r.question, r.options)

C6_NonOwnerUpdateRejected == [][C6_Step]_vars

\* an update of a stored poll has just been refused by the policy
C6_Witness ==
  /\ last.op = "updatePoll"
  /\ last.error = "AuthorizationError"
  /\ polls # {}

\* C7: deletePoll removes the poll if and only if the caller is its owner or
\* holds the admin role; any other caller gets an authorization error.
C7_Step ==
  last'.op = "deletePoll" =>
    \A c \in Callers, id \in PollIds :
      (PollExists(id) /\ deletePoll(c, id)) =>
        /\ ~PollExistsIn(polls', id) <=> (c = PollById(id).user_id \/ c \in Admins)
        /\ (c # PollById(id).user_id /\ c \notin Admins)
             => last'.error = "AuthorizationError"

C7_OwnerOrAdminDeletes == [][C7_Step]_vars

\* C8: a vote exists only while its poll exists, and a successful deletePoll
\* removes the poll together with all of its votes and nothing else.
C8_Step ==
  (last'.op = "deletePoll" /\ last'.error = None) =>
    \A c \in Callers, id \in PollIds :
      (PollExists(id) /\ deletePoll(c, id)) =>
        /\ polls' = polls \ {PollById(id)}
        /\ votes' = {v \in votes : v.poll_id # id}

C8_CascadeIsAtomic ==
  /\ [](\A v \in votes : PollExists(v.poll_id))
  /\ [][C8_Step]_vars

\* the only poll ever created has been deleted after all the votes went to it
C8_Witness ==
  /\ last.op = "deletePoll"
  /\ last.error = None
  /\ nextPollId = 1
  /\ nextVoteId >= 2
  /\ votes = {}
  /\ polls = {}

\* C9: submitVote with an option index outside [0, N) returns a validation
\* error and inserts nothing; every vote that enters the table is in range for
\* the options its poll has at that moment.
C9_Step ==
  /\ last'.op = "submitVote" =>
       \A c \in Callers, id \in PollIds, i \in IndexInputs :
         (PollExists(id) /\ ~ValidOptionIndex(PollById(id), i) /\ submitVote(c, id, i))
           => (last'.error = "ValidationError" /\ votes' = votes)
  /\ \A v \in votes' :
       (\A w \in votes : w.id # v.id) =>
         (PollExists(v.poll_id) /\ InRange(PollById(v.poll_id), v))

C9_OutOfRangeVoteRejected == [][C9_Step]_vars

\* an out-of-range submission on an existing poll has just been refused
C9_Witness ==
  /\ last.op = "submitVote"
  /\ last.error = "ValidationError"
  /\ polls # {}

\* C10 as stated: every vote keeps all of its fields for as long as its poll exists.
C10_StepAsStated ==
  \A v \in votes : PollExistsIn(polls', v.poll_id) => v \in votes'

C10_VotesImmutable == [][C10_StepAsStated]_vars

\* C10: while its poll exists a vote stays in the table with its poll_id,
\* option_index and created_at; its user_id changes only to NULL, when the
\* account of the voter is deleted.
C10_Step ==
  \A v \in votes :
    PollExistsIn(polls', v.poll_id) =>
      \E w \in votes' :
        /\ w.id = v.id
        /\ w.poll_id = v.poll_id
        /\ w.option_index = v.option_index
        /\ w.created_at = v.created_at
        /\ \/ w.user_id = v.user_id
           \/ w.user_id = NULL /\ v.user_id \notin users'

C10_VotesImmutableButUserNull == [][C10_Step]_vars

\* the voter's account is gone, the vote is still there, without its user
C10_Witness ==
  /\ last.op = "deleteUser"
  /\ \E v \in votes : v.user_id = NULL /\ v.created_at = 1
  /\ \E v \in votes : v.created_at = 2

(***************************************************************************)
(* Properties of the tally arithmetic (SpecPct).                           *)
(***************************************************************************)
\* C2: every percentage the page renders is an integer in [0, 100], and with
\* no votes every percentage is 0.
C2_PercentageInRange ==
  tally.shown =>
    \A i \in 1..Len(tally.percentages) :
      /\ tally.percentages[i] \in 0..100
      /\ tally.total = 0 => tally.percentages[i] = 0

\* a rendered poll without votes, and one whose only votes are on one option
C2_Witness ==
  /\ tally.shown
  /\ tally.total = 0
  /\ Len(tally.percentages) = 3

\* C3: with t > 0 votes, getPercentage(c) is c * 100 / t rounded to the
\* nearest integer, halves up.
C3_RoundHalfUp ==
  (tally.shown /\ tally.total > 0) =>
    \A i \in 1..Len(tally.percentages) :
      tally.percentages[i] = RoundHalfUp(tally.options[i].votes, tally.total)

\* C21: computing the results again from the same poll gives the same counts,
\* the same total and the same percentages, and no render changes a stored
\* poll or vote.
C21_Step ==
  /\ polls' = polls
  /\ votes' = votes
  /\ tally.shown =>
       /\ tally'.options = tally.options
       /\ tally'.total = tally.total
       /\ tally'.percentages = tally.percentages

C19_Step ==
  (last'.op = "submitVote" /\ last'.error = None) =>
    \A c \in Callers, id \in PollIds, i \in IndexInputs :
      submitVote(c, id, i) =>
        /\ votes \subseteq votes'
        /\ Cardinality(votes' \ votes) = 1
        /\ \A v \in votes' \ votes :
             v.poll_id = id /\ v.user_id = c /\ v.option_index = i

C19_VoteAppended == [][C19_Step]_vars

\* the same user has just voted a second time on the same poll
C19_Witness ==
  /\ last.op = "submitVote"
  /\ last.error = None
  /\ \E v \in votes, w \in votes :
       v.id # w.id /\ v.poll_id = w.poll_id /\ v.user_id = "u2" /\ w.user_id = "u2"

\* C20: updatePoll leaves the votes as they are; a vote whose option_index is
\* out of range for the options the poll has after the update stays in the
\* table and adds to no count of the poll as it is read next.
C20_Step ==
  last'.op = "updatePoll" =>
    /\ votes' = votes
    /\ \A p \in polls' : \A v \in votes' :
         (v.poll_id = p.id /\ ~InRange(p, v)) =>
           \A i \in 1..Len(p.options) :
             (getPollById(p.id).poll.options[i].votes)' =
               Cardinality({w \in votes' \ {v} :
                              w.poll_id = p.id /\ w.option_index = i - 1})

C20_UpdateKeepsVotes == [][C20_Step]_vars

\* an update has just shrunk a poll below the index of one of its votes
C20_Witness ==
  /\ last.op = "updatePoll"
  /\ last.error = None
  /\ \E p \in polls : \E v \in votes : v.poll_id = p.id /\ ~InRange(p, v)

(***************************************************************************)
(* Properties of the edit form (SpecEdit) and of the cap (SpecCap).        *)
(***************************************************************************)
\* C4: a submit whose question trims to empty, or that keeps fewer than 2
\* options after dropping those that trim to empty, ends with a validation
\* message; updatePoll is not called and the stored polls do not change.
C4_Step ==
  (handleSubmit /\ (trim(form.question) = <<>> \/ Len(ValidOptions(form.options)) < 2))
    => /\ form'.error \in {MinOptionsMessage, QuestionMessage}
       /\ ~form'.call.sent
       /\ ~form'.isSubmitting
       /\ polls' = polls
       /\ last' = last

C4_InvalidSubmitStopsInForm ==
  /\ [][C4_Step]_vars
  /\ [](form.call.sent =>
          (form.call.question # <<>> /\ Len(form.call.options) >= 2))

\* a blank question in front of two valid options has been refused in the form
C4_Witness ==
  /\ form.open
  /\ form.error = QuestionMessage
  /\ trim(form.question) = <<>>
  /\ Len(ValidOptions(form.options)) >= 2
  /\ ~form.call.sent
  /\ last.op # "updatePoll"

\* the submitted option lists with more than 10 non-empty options
OverCapInputs ==
  {o \in OptionInputs \cup CapInputs : Len(ValidOptions(o)) > MaxOptions}

\* C5: a createPoll or updatePoll that carries more than 10 non-empty options
\* is refused and changes no poll; no stored poll has more than 10 options.
C5_Step ==
  /\ \A c \in Callers, q \in QuestionInputs, o \in OverCapInputs :
       createPoll(c, q, o) => (last'.error # None /\ polls' = polls)
  /\ \A c \in Callers, id \in PollIds, q \in QuestionInputs, o \in OverCapInputs :
       updatePoll(c, id, q, o) => (last'.error # None /\ polls' = polls)

C5_OverCapRejected ==
  /\ [](\A p \in polls : Len(p.options) <= MaxOptions)
  /\ [][C5_Step]_vars

\* an update that carries one option too many was refused while a poll at the cap is stored
C5_Witness ==
  /\ last.op = "updatePoll"
  /\ last.error = "ValidationError"
  /\ \E p \in polls : Len(p.options) = MaxOptions

(***************************************************************************)
(* SpecVote: submitVote calls of different callers that overlap.  A call   *)
(* reads the poll and checks the option index, then inserts its row; the   *)
(* store serialises the single reads and inserts, nothing else.            *)
(***************************************************************************)
InFlight == {c \in Users : calls[c].state = "checked"}

\* submitVote up to its insert: the poll is read and the index checked
submitVoteBegin(caller, id, optionIndex) ==
  /\ caller \in users
  /\ calls[caller].state = "idle"
  /\ nextVoteId + Cardinality(InFlight) < MaxVotes
  /\ LET err == SubmitVoteError(caller, id, optionIndex)
     IN /\ calls' = [calls EXCEPT ![caller] =
                       [state       |-> IF err = None THEN "checked" ELSE "done",
                        poll        |-> id,
                        optionIndex |-> optionIndex,
                        votesSeen   |-> Cardinality({v \in votes : v.poll_id = id}),
                        error       |-> err]]
        /\ last' = IF err = None THEN last ELSE [op |-> "submitVote", error |-> err]
  /\ UNCHANGED <<users, polls, votes, nextPollId, nextVoteId, form, tally, mw, admin, page>>

\* the insert of the call and its return; the foreign key refuses a poll that is gone
submitVoteInsert(caller) ==
  /\ calls[caller].state = "checked"
  /\ LET call == calls[caller]
         err  == IF PollExists(call.poll) THEN None ELSE "NotFoundError"
     IN /\ calls' = [calls EXCEPT ![caller] = [call EXCEPT !.state = "done", !.error = err]]
        /\ last' = [op |-> "submitVote", error |-> err]
        /\ IF err = None
           THEN /\ votes' = InsertVote(votes, VoteRow(nextVoteId + 1, call.poll, caller,
                                                      call.optionIndex, nextVoteId + 1))
                /\ nextVoteId' = nextVoteId + 1
           ELSE UNCHANGED <<votes, nextVoteId>>
  /\ UNCHANGED <<users, polls, nextPollId, form, tally, mw, admin, page>>

NextVote ==
  \/ \E o \in OptionInputs : createPoll("u1", Q1, o)
  \/ \E c \in Users, id \in PollIds, i \in IndexInputs : submitVoteBegin(c, id, i)
  \/ \E c \in Users : submitVoteInsert(c)

SpecVote == Init /\ [][NextVote]_vars

\* the calls that have returned without an error for option i (0-based) of poll id
Succeeded(id, i) ==
  {c \in Users : /\ calls[c].state = "done"
                 /\ calls[c].error = None
                 /\ calls[c].poll = id
                 /\ calls[c].optionIndex = i}

\* C12: whatever the interleaving of the submitVote calls of different callers,
\* the tally read for each option of a poll is the number of calls that have
\* returned successfully for that option; in particular once every call has
\* returned no vote is lost.
C12_NoVoteLost ==
  \A p \in polls :
    \A i \in 1..Len(p.options) :
      getPollById(p.id).poll.options[i].votes = Cardinality(Succeeded(p.id, i - 1))

\* two calls on the same poll that both checked before either inserted have both returned
C12_Witness ==
  /\ InFlight = {}
  /\ \E c, d \in Users :
       /\ c # d
       /\ calls[c].state = "done" /\ calls[c].error = None
       /\ calls[d].state = "done" /\ calls[d].error = None
       /\ calls[c].poll = calls[d].poll
       /\ calls[c].optionIndex = calls[d].optionIndex
       /\ calls[c].votesSeen = 0 /\ calls[d].votesSeen = 0

(***************************************************************************)
(* SpecMw: updateSession (lib/supabase/middleware.ts).                     *)
(***************************************************************************)
LoginPath == <<"/", "l", "o", "g", "i", "n">>
RegisterPath == <<"/", "r", "e", "g", "i", "s", "t", "e", "r">>
PollsPath == <<"/", "p", "o", "l", "l", "s">>
AdminPath == <<"/", "a", "d", "m", "i", "n">>

\* the paths requested: the public routes, paths they are a prefix of, paths
\* that are a prefix of them or hold them further in, and other pages
PathInputs ==
  { <<"/">>, LoginPath, LoginPath \o <<"/", "x">>, LoginPath \o <<"x">>,
    RegisterPath, RegisterPath \o <<"e", "d">>,
    SubSeq(LoginPath, 1, 4), SubSeq(RegisterPath, 1, 8), <<"/", "L">> \o SubSeq(LoginPath, 3, 6),
    PollsPath, PollsPath \o LoginPath, PollsPath \o <<"/", "1">>, AdminPath }

\* String.prototype.startsWith
startsWith(text, prefix) ==
  Len(text) >= Len(prefix) /\ SubSeq(text, 1, Len(prefix)) = prefix

publicRoutes == <<LoginPath, RegisterPath>>

\* variant: a public route is matched as a whole path
isPublicRouteExact(pathname) ==
  \E i \in 1..Len(publicRoutes) : pathname = publicRoutes[i]

\* publicRoutes.some(route => pathname.startsWith(route))
isPublicRoute(pathname) ==
  \E i \in 1..Len(publicRoutes) : startsWith(pathname, publicRoutes[i])

\* what supabase.auth.getUser() can answer for the session the request carries:
\* the user of a live session, no user (with or without an error), or a throw
GetUserOutcomes(session) ==
  { [kind |-> "returned", user |-> NULL, error |-> "AuthError"],
    [kind |-> "returned", user |-> NULL, error |-> None],
    [kind |-> "threw", user |-> NULL, error |-> None] }
  \cup (IF session \in users
        THEN {[kind |-> "returned", user |-> session, error |-> None]}
        ELSE {})

\* error || !user
Rejected(outcome) == outcome.error # None \/ outcome.user = NULL

\* the whole of updateSession for one request; outcome is what getUser answers
\* if it is called
updateSessionResponse(pathname, session, followed, outcome) ==
  IF isPublicRoute(pathname)
  THEN [state |-> "answered", pathname |-> pathname, session |-> session,
        followed |-> followed, checked |-> FALSE, outcome |-> NoOutcome,
        response |-> "next", location |-> <<>>]
  ELSE IF outcome.kind = "threw" \/ Rejected(outcome)
  THEN [state |-> "answered", pathname |-> pathname, session |-> session,
        followed |-> followed, checked |-> TRUE, outcome |-> outcome,
        response |-> "redirect", location |-> LoginPath]
  ELSE [state |-> "answered", pathname |-> pathname, session |-> session,
        followed |-> followed, checked |-> TRUE, outcome |-> outcome,
        response |-> "next", location |-> <<>>]

updateSession(pathname, session, outcome) ==
  /\ mw' = updateSessionResponse(pathname, session, FALSE, outcome)
  /\ UNCHANGED <<users, polls, votes, nextPollId, nextVoteId, last, form, tally,
                 calls, admin, page>>

\* the browser follows the redirect: the same session requests the location
FollowRedirect(outcome) ==
  /\ mw.response = "redirect"
  /\ mw' = updateSessionResponse(mw.location, mw.session, TRUE, outcome)
  /\ UNCHANGED <<users, polls, votes, nextPollId, nextVoteId, last, form, tally,
                 calls, admin, page>>

NextMw ==
  \/ \E path \in PathInputs, session \in Callers :
       \E outcome \in GetUserOutcomes(session) : updateSession(path, session, outcome)
  \/ \E outcome \in GetUserOutcomes(mw.session) : FollowRedirect(outcome)

SpecMw == Init /\ [][NextMw]_vars

\* the path starts with /login or with /register
StartsWithLoginOrRegister(path) ==
  \/ Len(path) >= 6 /\ SubSeq(path, 1, 6) = <<"/", "l", "o", "g", "i", "n">>
  \/ Len(path) >= 9 /\ SubSeq(path, 1, 9) = <<"/", "r", "e", "g", "i", "s", "t", "e", "r">>

SignInAnswers == {"ok", "invalid credentials", "network"}
SignOutAnswers == {"ok", "network"}

\* the pages requested: a public route and two protected ones
AuthPathInputs == {LoginPath, PollsPath, AdminPath}

\* error of supabase.auth.signInWithPassword: none for the right password of
\* an existing account
SignInError(email, answer) ==
  IF email \in users /\ answer = "ok" THEN None ELSE "AuthError"

\* error of supabase.auth.signOut
SignOutError(answer) == IF answer = "ok" THEN None ELSE "AuthError"

\* variant: signing out leaves the session cookie in place
SessionAfterSignOutKept(session, error) == session

\* "terminates the user's session"; a failed sign-out changes nothing
SessionAfterSignOut(session, error) == IF error = None THEN NULL ELSE session

\* "a successful login establishes a session"; a failed one changes nothing
SessionAfterSignIn(session, email, error) == IF error = None THEN email ELSE session

login(email, answer) ==
  /\ LET error == SignInError(email, answer)
     IN /\ last' = [op |-> "login", error |-> error]
        /\ mw' = [MwIdle EXCEPT !.session = SessionAfterSignIn(mw.session, email, error)]
  /\ UNCHANGED <<users, polls, votes, nextPollId, nextVoteId, form, tally,
                 calls, admin, page>>

logout(answer) ==
  /\ LET error == SignOutError(answer)
     IN /\ last' = [op |-> "logout", error |-> error]
        /\ mw' = [MwIdle EXCEPT !.session = SessionAfterSignOut(mw.session, error)]
  /\ UNCHANGED <<users, polls, votes, nextPollId, nextVoteId, form, tally,
                 calls, admin, page>>

\* the browser requests a page with the cookie it holds
AuthRequest(pathname, outcome) ==
  /\ outcome \in GetUserOutcomes(mw.session)
  /\ updateSession(pathname, mw.session, outcome)

NextAuth ==
  \/ \E email \in Users, answer \in SignInAnswers : login(email, answer)
  \/ \E answer \in SignOutAnswers : logout(answer)
  \/ \E path \in AuthPathInputs :
       \E outcome \in GetUserOutcomes(mw.session) : AuthRequest(path, outcome)
  \/ \E u \in Deletable : deleteUser(u)

SpecAuth == Init /\ [][NextAuth]_vars

ProtectedInputs == {path \in AuthPathInputs : ~isPublicRoute(path)}

\* a failed login or logout leaves the session as it was; a successful login
\* makes the session the user's, a successful logout ends it
C22_SessionStep ==
  /\ (last'.op \in {"login", "logout"} /\ last'.error # None /\ mw' # mw)
       => mw'.session = mw.session
  /\ \A email \in Users, answer \in SignInAnswers :
       (login(email, answer) /\ last'.error = None) => mw'.session = email
  /\ \A answer \in SignOutAnswers :
       (logout(answer) /\ last'.error = None) => mw'.session = NULL

\* C22 as stated: a request to a protected route is passed through exactly
\* while a session is established, that is after a successful login and before
\* the next successful logout.
C22_StepAsStated ==
  /\ C22_SessionStep
  /\ \A path \in ProtectedInputs :
       \A outcome \in GetUserOutcomes(mw.session) :
         AuthRequest(path, outcome) =>
           (mw'.response = "next" <=> mw.session # NULL)

C22_SessionDecidesAccess == [][C22_StepAsStated]_vars

\* C22: a successful login establishes the session and a successful logout
\* ends it, a failed one leaves it as it was; without a session every request
\* to a protected route is redirected to /login, and with a session a request
\* to a protected route is passed through exactly when the identity check
\* returns the user: when it returns an error or no user, or throws, the
\* request is redirected to /login although nobody logged out.
C22_Step ==
  /\ C22_SessionStep
  /\ \A path \in ProtectedInputs :
       \A outcome \in GetUserOutcomes(mw.session) :
         AuthRequest(path, outcome) =>
           /\ mw.session = NULL =>
                (mw'.response = "redirect" /\ mw'.location = LoginPath)
           /\ mw'.response = "next" <=>
                (mw.session # NULL /\ outcome.kind = "returned"
                   /\ outcome.error = None /\ outcome.user = mw.session)
           /\ mw'.response # "next" =>
                (mw'.response = "redirect" /\ mw'.location = LoginPath)

C22_SessionAndIdentityDecideAccess == [][C22_Step]_vars

\* after a successful login and no logout, a request to a protected route of
\* the session that login established has been redirected
C22_Witness ==
  /\ last.op = "login"
  /\ last.error = None
  /\ mw.session \in users
  /\ mw.state = "answered"
  /\ ~isPublicRoute(mw.pathname)
  /\ mw.response = "redirect"

(***************************************************************************)
(* SpecAdmin: AdminPage.  The page reads table polls with the client of    *)
(* the signed-in user and deletes through the server action deletePoll.    *)
(***************************************************************************)
\* the rows a SELECT returns to uid
SelectPolls(uid) == {p \in polls : PollsSelectPolicy(uid, p)}
SelectVotes(uid) == {v \in votes : VotesSelectPolicy(uid, v)}

\* .order("created_at", { ascending: false }); ids grow with the time of creation
RECURSIVE OrderDesc(_)
OrderDesc(rows) ==
  IF rows = {} THEN <<>>
  ELSE LET newest == CHOOSE p \in rows : \A q \in rows : q.id <= p.id
       IN <<newest>> \o OrderDesc(rows \ {newest})

\* the polls in the store when the page is opened
AdminPollInputs ==
  { PollRow(1, "u1", Q1, <<Red, Blue>>), PollRow(2, "u2", Q1, <<Red, Blue, Green>>),
    PollRow(3, "u1", Q2, <<Red, Blue>>) }

InitAdmin ==
  /\ users = Users
  /\ polls \in SUBSET AdminPollInputs
  /\ votes = {}
  /\ nextPollId = Cardinality(AdminPollInputs)
  /\ nextVoteId = 0
  /\ last = NoCall
  /\ form = FormClosed
  /\ tally = TallyIdle
  /\ PagesIdle

\* auth.uid() of the requests the page makes
AdminCaller == IF admin.user \in users THEN admin.user ELSE NULL

\* /admin is requested and the page mounts: updateSession lets the request
\* through, the state is initial and the effect starts fetchAllPolls
AdminPage(session) ==
  /\ ~admin.open
  /\ \E outcome \in GetUserOutcomes(session) :
       updateSessionResponse(AdminPath, session, FALSE, outcome).response = "next"
  /\ admin' = [AdminClosed EXCEPT !.open = TRUE, !.user = session, !.fetching = TRUE]
  /\ UNCHANGED <<users, polls, votes, nextPollId, nextVoteId, last, form, tally,
                 calls, mw, page>>

\* fetchAllPolls after its await: the store answered with rows or with an error
fetchAllPolls(failed) ==
  /\ admin.open
  /\ admin.fetching
  /\ admin' = [admin EXCEPT
                 !.polls = IF failed THEN @ ELSE OrderDesc(SelectPolls(AdminCaller)),
                 !.loading = FALSE,
                 !.fetching = FALSE,
                 !.fetched = IF failed THEN "error" ELSE "data"]
  /\ UNCHANGED <<users, polls, votes, nextPollId, nextVoteId, last, form, tally,
                 calls, mw, page>>

Listed(id) == \E i \in 1..Len(admin.polls) : admin.polls[i].id = id

\* handleDelete up to its await; the button of the poll is enabled and the
\* user confirms
handleDelete(pollId) ==
  /\ admin.open
  /\ ~admin.loading
  /\ Listed(pollId)
  /\ admin.deleteLoading # pollId
  /\ Len(admin.deletes) < MaxDeletes
  /\ admin' = [admin EXCEPT
                 !.deleteLoading = pollId,
                 !.deletes = Append(@, [poll |-> pollId, closure |-> admin.polls,
                                        state |-> "sent", error |-> None])]
  /\ UNCHANGED <<users, polls, votes, nextPollId, nextVoteId, last, form, tally,
                 calls, mw, page>>

\* the server runs deletePoll for call k of the page
deletePollServed(k) ==
  /\ k \in 1..Len(admin.deletes)
  /\ admin.deletes[k].state = "sent"
  /\ LET id  == admin.deletes[k].poll
         err == DeletePollError(AdminCaller, id)
     IN /\ last' = [op |-> "deletePoll", error |-> err]
        /\ IF err = None
           THEN /\ polls' = {p \in polls : p.id # id}
                /\ votes' = CascadePollDelete(votes, {id})
           ELSE UNCHANGED <<polls, votes>>
        /\ admin' = [admin EXCEPT !.deletes[k].state = "returned",
                                  !.deletes[k].error = err]
  /\ UNCHANGED <<users, nextPollId, nextVoteId, form, tally, calls, mw, page>>

\* call k fails before it reaches the server: the await throws
deletePollThrows(k) ==
  /\ k \in 1..Len(admin.deletes)
  /\ admin.deletes[k].state = "sent"
  /\ admin' = [admin EXCEPT !.deletes[k].state = "threw"]
  /\ UNCHANGED <<users, polls, votes, nextPollId, nextVoteId, last, form, tally,
                 calls, mw, page>>

\* handleDelete after its await: polls is the list the handler was created with
handleDeleteResume(k) ==
  /\ k \in 1..Len(admin.deletes)
  /\ admin.deletes[k].state \in {"returned", "threw"}
  /\ LET call == admin.deletes[k]
     IN admin' =
          IF call.state = "threw"
          THEN [admin EXCEPT !.deletes[k].state = "failed"]
          ELSE [admin EXCEPT
                  !.polls = IF call.error = None
                            THEN SelectSeq(call.closure, LAMBDA p : p.id # call.poll)
                            ELSE @,
                  !.deleteLoading = 0,
                  !.deletes[k].state = "done"]
  /\ UNCHANGED <<users, polls, votes, nextPollId, nextVoteId, last, form, tally,
                 calls, mw, page>>

\* what the page renders
AdminPageView ==
  IF admin.loading
  THEN [kind |-> "loading", cards |-> <<>>, empty |-> FALSE]
  ELSE [kind |-> "list", cards |-> admin.polls, empty |-> (Len(admin.polls) = 0)]

NextAdmin ==
  \/ \E session \in Callers : AdminPage(session)
  \/ \E failed \in BOOLEAN : fetchAllPolls(failed)
  \/ \E id \in 1..Cardinality(AdminPollInputs) : handleDelete(id)
  \/ \E k \in 1..MaxDeletes : deletePollServed(k)
  \/ \E k \in 1..MaxDeletes : deletePollThrows(k)
  \/ \E k \in 1..MaxDeletes : handleDeleteResume(k)

SpecAdmin == InitAdmin /\ [][NextAdmin]_vars

\* every handleDelete that was started has run to its end or was cut by a throw
DeletesSettled ==
  \A k \in 1..Len(admin.deletes) : admin.deletes[k].state \in {"done", "failed"}

\* the polls whose deletePoll returned no error
DeletedIds ==
  {admin.deletes[k].poll :
     k \in {j \in 1..Len(admin.deletes) :
              admin.deletes[j].state \in {"returned", "done"}
                /\ admin.deletes[j].error = None}}

\* C23: once the delete requests started on the page have ended, the list it
\* shows is the list it fetched without the polls whose deletePoll returned no
\* error: a deleted poll is not in the list, any other fetched poll is, in the
\* order of the fetch.  (In SpecAdmin only these deletes change table polls,
\* so the fetched rows that were not deleted are the rows of the table.)
C23_ListIsFetchedMinusDeleted ==
  (admin.open /\ admin.fetched = "data" /\ DeletesSettled) =>
    /\ \A id \in DeletedIds : ~Listed(id)
    /\ admin.polls = OrderDesc(SelectPolls(AdminCaller))

\* C24: while a deletePoll call for a poll is in flight deleteLoading is the
\* id of that poll, so that its button is disabled, and once every started
\* handleDelete has ended deleteLoading is null.
C24_DeleteLoadingTracksCalls ==
  admin.open =>
    /\ \A k \in 1..Len(admin.deletes) :
         admin.deletes[k].state = "sent" => admin.deleteLoading = admin.deletes[k].poll
    /\ DeletesSettled => admin.deleteLoading = 0

\* C14: a failure of a store call is shown to the user: when the SELECT of
\* fetchAllPolls has failed the page does not render the list that a
\* successful fetch gives.
C14_FailuresAreShown ==
  (admin.open /\ admin.fetched = "error") => AdminPageView.kind # "list"

\* C15: a signed-in user sees only their own polls: no poll that a read of
\* the page returned to its user is owned by another user.
C15_OnlyOwnPollsRead ==
  admin.open => \A i \in 1..Len(admin.polls) : admin.polls[i].user_id = admin.user

C17_DeleteStep ==
  \A k \in 1..MaxDeletes :
    (deletePollServed(k) /\ last'.error = None /\ admin.user \notin Admins)
      => PollById(admin.deletes[k].poll).user_id = admin.user

\* C17: the admin panel is restricted to admins: the page is open only for a
\* user who holds the admin role, and a user without the role deletes no poll
\* of another user through it.
C17_AdminPanelRestricted ==
  /\ [](admin.open => admin.user \in Admins)
  /\ [][C17_DeleteStep]_vars

(***************************************************************************)
(* SpecPage: PollDetailPage loads a poll and asks whether its user has     *)
(* voted on it, while votes come in.                                       *)
(***************************************************************************)
\* variant: any vote of the user counts, whatever its poll
hasUserVotedAnyPoll(pollId, userId) == \E v \in votes : v.user_id = userId

\* hasUserVoted: a vote of the user on the poll exists
hasUserVoted(pollId, userId) ==
  \E v \in votes : v.poll_id = pollId /\ v.user_id = userId

MissingIdMessage == "Poll ID is missing."
LoadFailedMessage == "Failed to load poll. Please try again."
VoteFailedMessage == "Failed to submit vote. Please try again."

\* the two files that define PollDetailPage: the one whose handlers catch
\* what their awaits throw, and the one whose handlers do not
Guarded == "part_000"
Plain == "polls/[id]/page.tsx"
PageFiles == {Guarded, Plain}

\* the polls in the store when the page is opened
PagePollInputs ==
  { PollRow(1, "u1", Q1, <<Red, Blue>>), PollRow(2, "u2", Q2, <<Red, Blue, Green>>) }

\* params.id: none, a poll of the store, a poll that does not exist
PageIdInputs == {NoId} \cup {p.id : p \in PagePollInputs} \cup {Cardinality(PagePollInputs) + 1}

\* the signed-in user who opens the page
PageSessions == {"u2"}

\* what the await of hasUserVoted can give: an answer, an error, an exception
VoteCheckOutcomes == {"answer", "error", "threw"}

InitPage ==
  /\ users = Users
  /\ polls = PagePollInputs
  /\ votes = {}
  /\ nextPollId = Cardinality(PagePollInputs)
  /\ nextVoteId = 0
  /\ last = NoCall
  /\ form = FormClosed
  /\ tally = TallyIdle
  /\ PagesIdle

\* a fetchPoll that has reached its first await, with the user of its closure
NewFetch(user) ==
  [user |-> user, state |-> "getPollById", got |-> NoPollReply, checked |-> NoCheckReply]

\* the answer of the server action getPollById as the page receives it
PollReply(id) ==
  LET r == getPollById(id)
  IN [kind  |-> "returned",
      poll  |-> IF r.error = None THEN r.poll ELSE NoPoll,
      error |-> r.error,
      at    |-> nextVoteId]

ThrewReply == [kind |-> "threw", poll |-> NoPoll, error |-> None, at |-> nextVoteId]

\* variant: the poll is rendered whether or not an error is set
PageViewPollFirst(p) ==
  IF p.loading THEN "loading"
  ELSE IF p.poll.id = NoId THEN (IF p.error # None THEN "error" ELSE "not found")
  ELSE IF p.file = Plain THEN (IF ~p.hasVoted THEN "form" ELSE "results")
  ELSE IF ~p.hasVoted /\ p.user # NULL THEN "form"
  ELSE IF p.user = NULL THEN "login"
  ELSE "results"

\* what the component returns: if (loading), if (error), if (!poll), then the
\* card with the voting form, the login prompt or the results
PageView(p) ==
  IF p.loading THEN "loading"
  ELSE IF p.error # None THEN "error"
  ELSE IF p.poll.id = NoId THEN "not found"
  ELSE IF p.file = Plain THEN (IF ~p.hasVoted THEN "form" ELSE "results")
  ELSE IF ~p.hasVoted /\ p.user # NULL THEN "form"
  ELSE IF p.user = NULL THEN "login"
  ELSE "results"

\* /polls/[id] is requested and the page mounts: updateSession lets the request
\* through, the state is initial and the effect runs fetchPoll up to its first
\* await; user is what useAuth gives, the session's user or nothing yet
PollDetailPage(file, session, user, id) ==
  /\ ~page.open
  /\ user \in {session, NULL}
  /\ \E outcome \in GetUserOutcomes(session) :
       updateSessionResponse(PollsPath, session, FALSE, outcome).response = "next"
  /\ page' = IF id = NoId
             THEN [PageClosed EXCEPT !.open = TRUE, !.file = file, !.session = session,
                                     !.user = user, !.error = MissingIdMessage,
                                     !.loading = FALSE]
             ELSE [PageClosed EXCEPT !.open = TRUE, !.file = file, !.session = session,
                                     !.user = user, !.id = id,
                                     !.fetches = <<NewFetch(user)>>]
  /\ UNCHANGED <<users, polls, votes, nextPollId, nextVoteId, last, form, tally,
                 calls, mw, admin>>

\* useAuth delivers the user of the session; user is a dependency of the
\* effect, which runs fetchPoll again while earlier runs go on
useAuthChange ==
  /\ page.open
  /\ page.user = NULL
  /\ page' = IF page.id = NoId
             THEN [page EXCEPT !.user = page.session, !.error = MissingIdMessage,
                               !.loading = FALSE]
             ELSE [page EXCEPT !.user = page.session,
                               !.fetches = Append(@, NewFetch(page.session))]
  /\ UNCHANGED <<users, polls, votes, nextPollId, nextVoteId, last, form, tally,
                 calls, mw, admin>>

\* the server answers the getPollById of fetchPoll k, or the await throws
getPollByIdServed(k, threw) ==
  /\ page.open
  /\ k \in 1..Len(page.fetches)
  /\ page.fetches[k].state = "getPollById"
  /\ page' = [page EXCEPT !.fetches[k].state = "gotPoll",
                          !.fetches[k].got = IF threw THEN ThrewReply
                                             ELSE PollReply(page.id)]
  /\ UNCHANGED <<users, polls, votes, nextPollId, nextVoteId, last, form, tally,
                 calls, mw, admin>>

\* fetchPoll k after the await of getPollById
fetchPollLoaded(k) ==
  /\ page.open
  /\ k \in 1..Len(page.fetches)
  /\ page.fetches[k].state = "gotPoll"
  /\ LET fetch == page.fetches[k]
         r     == fetch.got
     IN page' =
          IF r.kind = "threw"
          THEN IF page.file = Guarded
               THEN [page EXCEPT !.error = LoadFailedMessage, !.loading = FALSE,
                                 !.fetches[k].state = "done"]
               ELSE [page EXCEPT !.fetches[k].state = "dead"]
          ELSE IF r.error # None
          THEN [page EXCEPT !.error = r.error, !.loading = FALSE,
                            !.fetches[k].state = "done"]
          ELSE IF fetch.user # NULL
          THEN [page EXCEPT !.poll = r.poll, !.fetches[k].state = "hasUserVoted"]
          ELSE [page EXCEPT !.poll = r.poll, !.loading = FALSE,
                            !.fetches[k].state = "done"]
  /\ UNCHANGED <<users, polls, votes, nextPollId, nextVoteId, last, form, tally,
                 calls, mw, admin>>

\* the server answers the hasUserVoted of fetchPoll k
hasUserVotedServed(k, outcome) ==
  /\ page.open
  /\ k \in 1..Len(page.fetches)
  /\ page.fetches[k].state = "hasUserVoted"
  /\ page' = [page EXCEPT
                !.fetches[k].state = "checked",
                !.fetches[k].checked =
                   [kind     |-> outcome,
                    hasVoted |-> IF outcome = "answer"
                                 THEN hasUserVoted(page.id, page.fetches[k].user)
                                 ELSE FALSE,
                    at       |-> nextVoteId]]
  /\ UNCHANGED <<users, polls, votes, nextPollId, nextVoteId, last, form, tally,
                 calls, mw, admin>>

\* fetchPoll k after the await of hasUserVoted
fetchPollChecked(k) ==
  /\ page.open
  /\ k \in 1..Len(page.fetches)
  /\ page.fetches[k].state = "checked"
  /\ LET r == page.fetches[k].checked
     IN page' =
          IF r.kind = "threw"
          THEN IF page.file = Guarded
               THEN [page EXCEPT !.error = LoadFailedMessage, !.loading = FALSE,
                                 !.fetches[k].state = "done"]
               ELSE [page EXCEPT !.fetches[k].state = "dead"]
          ELSE IF r.kind = "error"
          THEN [page EXCEPT !.loading = FALSE, !.fetches[k].state = "done"]
          ELSE [page EXCEPT !.hasVoted = r.hasVoted, !.loading = FALSE,
                            !.fetches[k].state = "done"]
  /\ UNCHANGED <<users, polls, votes, nextPollId, nextVoteId, last, form, tally,
                 calls, mw, admin>>

\* an option of the voting form is clicked
setSelectedOptionIndex(index) ==
  /\ page.open
  /\ PageView(page) = "form"
  /\ index \in 0..(Len(page.poll.options) - 1)
  /\ index # page.selectedOptionIndex
  /\ page' = [page EXCEPT !.selectedOptionIndex = index]
  /\ UNCHANGED <<users, polls, votes, nextPollId, nextVoteId, last, form, tally,
                 calls, mw, admin>>

\* the submitVote call of the page has not reached the server yet
VotePending == page.vote.state = "submitVote"

\* handleVote up to its first await; the button is in the voting form and is
\* disabled while nothing is selected or isSubmitting is set
handleVote ==
  /\ page.open
  /\ PageView(page) = "form"
  /\ page.selectedOptionIndex # NoIndex
  /\ ~page.isSubmitting
  /\ nextVoteId < MaxVotes
  /\ page' = [page EXCEPT
                !.isSubmitting = TRUE,
                !.vote = [NoPageVote EXCEPT !.state = "submitVote",
                                            !.poll = page.poll.id,
                                            !.optionIndex = page.selectedOptionIndex]]
  /\ UNCHANGED <<users, polls, votes, nextPollId, nextVoteId, last, form, tally,
                 calls, mw, admin>>

\* the server runs submitVote for the page, as the user of the session
submitVoteServed ==
  /\ page.open
  /\ VotePending
  /\ LET call == page.vote
         err  == SubmitVoteError(page.session, call.poll, call.optionIndex)
     IN /\ last' = [op |-> "submitVote", error |-> err]
        /\ IF err = None
           THEN /\ votes' = InsertVote(votes, VoteRow(nextVoteId + 1, call.poll,
                                                      page.session, call.optionIndex,
                                                      nextVoteId + 1))
                /\ nextVoteId' = nextVoteId + 1
           ELSE UNCHANGED <<votes, nextVoteId>>
        /\ page' = [page EXCEPT !.vote.state = "submitted", !.vote.error = err,
                                !.vote.at = nextVoteId']
  /\ UNCHANGED <<users, polls, nextPollId, form, tally, calls, mw, admin>>

\* the call fails before it reaches the server: the await throws
submitVoteThrows ==
  /\ page.open
  /\ VotePending
  /\ page' = [page EXCEPT !.vote.state = "submitted", !.vote.threw = TRUE]
  /\ UNCHANGED <<users, polls, votes, nextPollId, nextVoteId, last, form, tally,
                 calls, mw, admin>>

\* handleVote after the await of submitVote
handleVoteSubmitted ==
  /\ page.open
  /\ page.vote.state = "submitted"
  /\ page' =
       IF page.vote.threw
       THEN IF page.file = Guarded
            THEN [page EXCEPT !.error = VoteFailedMessage, !.isSubmitting = FALSE,
                              !.vote.state = "done"]
            ELSE [page EXCEPT !.vote.state = "dead"]
       ELSE IF page.vote.error # None
       THEN [page EXCEPT !.error = page.vote.error, !.isSubmitting = FALSE,
                         !.vote.state = "done"]
       ELSE [page EXCEPT !.hasVoted = TRUE, !.submitted = @ + 1,
                         !.vote.state = "getPollById"]
  /\ UNCHANGED <<users, polls, votes, nextPollId, nextVoteId, last, form, tally,
                 calls, mw, admin>>

\* the server answers the getPollById that follows the vote, or the await throws
getPollByIdServedAfterVote(threw) ==
  /\ page.open
  /\ page.vote.state = "getPollById"
  /\ page' = [page EXCEPT !.vote.state = "refetched",
                          !.vote.got = IF threw THEN ThrewReply
                                       ELSE PollReply(page.vote.poll)]
  /\ UNCHANGED <<users, polls, votes, nextPollId, nextVoteId, last, form, tally,
                 calls, mw, admin>>

\* handleVote after the await of getPollById
handleVoteRefetched ==
  /\ page.open
  /\ page.vote.state = "refetched"
  /\ LET r == page.vote.got
     IN page' =
          IF r.kind = "threw"
          THEN IF page.file = Guarded
               THEN [page EXCEPT !.error = VoteFailedMessage, !.isSubmitting = FALSE,
                                 !.vote.state = "done"]
               ELSE [page EXCEPT !.vote.state = "dead"]
          ELSE [page EXCEPT
                  !.poll = IF r.error = None THEN r.poll ELSE @,
                  !.error = IF r.error # None THEN r.error ELSE @,
                  !.isSubmitting = FALSE,
                  !.vote.state = "done"]
  /\ UNCHANGED <<users, polls, votes, nextPollId, nextVoteId, last, form, tally,
                 calls, mw, admin>>

\* the votes the user has cast before the page is opened
earlierVote(caller, id) ==
  /\ ~page.open
  /\ submitVote(caller, id, 0)

\* the steps of the page's pending awaits and of the handlers behind them
PageProgress ==
  \/ \E k \in 1..2, threw \in BOOLEAN : getPollByIdServed(k, threw)
  \/ \E k \in 1..2 : fetchPollLoaded(k)
  \/ \E k \in 1..2, outcome \in VoteCheckOutcomes : hasUserVotedServed(k, outcome)
  \/ \E k \in 1..2 : fetchPollChecked(k)
  \/ submitVoteServed
  \/ submitVoteThrows
  \/ handleVoteSubmitted
  \/ \E threw \in BOOLEAN : getPollByIdServedAfterVote(threw)
  \/ handleVoteRefetched

NextPage ==
  \/ \E file \in PageFiles, session \in PageSessions, user \in Callers, id \in PageIdInputs :
       PollDetailPage(file, session, user, id)
  \/ useAuthChange
  \/ \E index \in 0..(MaxOptions - 1) : setSelectedOptionIndex(index)
  \/ handleVote
  \/ PageProgress
  \/ \E c \in PageSessions, p \in PagePollInputs : earlierVote(c, p.id)
  \/ \E p \in {q \in PagePollInputs : q.user_id \in PageSessions} :
       deletePoll(p.user_id, p.id)

SpecPage == InitPage /\ [][NextPage]_vars

\* every await returns or throws, and the handler behind it is resumed
SpecPageLive == SpecPage /\ WF_vars(PageProgress)

\* C18: hasVoted(pollId, userId) is true exactly when the store holds, at the
\* time of the call, a vote with that poll and that user.
C18_Step ==
  \A k \in 1..2 :
    hasUserVotedServed(k, "answer") =>
      (page'.fetches[k].checked.hasVoted <=>
         Cardinality({v \in votes : v.poll_id = page.id
                                      /\ v.user_id = page.fetches[k].user}) >= 1)

C18_HasVotedIffVoteExists == [][C18_Step]_vars

\* the page has been told that its user voted on its poll
C18_Witness ==
  /\ page.open
  /\ page.hasVoted
  /\ page.submitted = 0
  /\ \E k \in 1..Len(page.fetches) :
       /\ page.fetches[k].state = "done"
       /\ page.fetches[k].checked.kind = "answer"
       /\ page.fetches[k].checked.hasVoted
  /\ \E v \in votes : v.poll_id = page.id /\ v.user_id = page.user

\* every fetchPoll and the handleVote of the page have ended, every await
\* returned and none with an error
Quiescent ==
  /\ page.open
  /\ page.error = None
  /\ page.fetches # <<>>
  /\ page.vote.state \in {"idle", "done"}
  /\ page.vote.state = "done" => (page.vote.got.kind = "returned" /\ page.vote.got.error = None)
  /\ \A k \in 1..Len(page.fetches) :
       /\ page.fetches[k].state = "done"
       /\ page.fetches[k].got.kind = "returned"
       /\ page.fetches[k].user # NULL => page.fetches[k].checked.kind = "answer"

\* the polls the page has received, and what it has learnt about its user's
\* vote: from hasUserVoted and from its own submitVote
PollsReceived ==
  {page.fetches[k].got : k \in 1..Len(page.fetches)}
    \cup (IF page.vote.state = "done" THEN {page.vote.got} ELSE {})

VotedReceived ==
  {[hasVoted |-> page.fetches[k].checked.hasVoted, at |-> page.fetches[k].checked.at] :
     k \in {j \in 1..Len(page.fetches) : page.fetches[j].user # NULL}}
    \cup (IF page.submitted > 0 THEN {[hasVoted |-> TRUE, at |-> page.vote.at]} ELSE {})

\* C26: when the user changes while fetches are in flight, then once every
\* fetch and handler has ended without error the poll shown and the hasVoted
\* flag are the newest the page has received: no answer taken from an older
\* state of the store (for the user before, or from before a vote) is what
\* the page is left with.
C26_NewestStateWins ==
  Quiescent =>
    /\ \E r \in PollsReceived :
         /\ page.poll = r.poll
         /\ \A q \in PollsReceived : q.at <= r.at
    /\ VotedReceived # {} =>
         \E r \in VotedReceived :
           /\ page.hasVoted = r.hasVoted
           /\ \A q \in VotedReceived : q.at <= r.at

\* C27: at most one submitVote call of the page is in flight at a time, and
\* one visit of a signed-in user submits at most one vote: handleVote does not
\* start while isSubmitting is set, nor once hasVoted has become true.
C27_Step ==
  handleVote => (~page.isSubmitting /\ ~page.hasVoted /\ page.submitted = 0)

C27_OneVotePerVisit ==
  /\ [](page.vote.state \in {"submitVote", "submitted", "getPollById", "refetched"}
         => page.isSubmitting)
  /\ [](page.submitted <= 1)
  /\ [][C27_Step]_vars

\* C25: every handleVote that has started ends with isSubmitting = false and
\* every fetchPoll that has started ends with loading = false, whether the
\* awaited action succeeds, returns an error or throws.
C25_HandlersEnd ==
  /\ page.isSubmitting ~> ~page.isSubmitting
  /\ (page.open /\ page.loading) ~> ~page.loading

\* C28: once error is set it stays set for as long as the page is mounted, no
\* handler clears it, and the page renders the error view and neither the
\* voting form nor the poll; so after a failed vote the form is not shown again.
C28_Step == (page.open /\ page.error # None) => page'.error # None

C28_ErrorIsSticky ==
  /\ [][C28_Step]_vars
  /\ []((page.open /\ page.error # None) => PageView(page) = "error")

\* submitVote returned an error for a poll the page had loaded and shown
C28_Witness ==
  /\ page.open
  /\ page.vote.state = "done"
  /\ page.vote.error # None
  /\ page.error = page.vote.error
  /\ page.poll.id # NoId
  /\ ~page.isSubmitting
  /\ PageView(page) = "error"

(***************************************************************************)
(* Properties of the edit form opened with any stored value (SpecForm).    *)
(***************************************************************************)
OptionCountInRange == Len(form.options) \in MinOptions..MaxOptions

\* the stored value is missing or empty, or an array of 2 to 10 entries
StoredInRange(stored) ==
  \/ stored.kind # "array"
  \/ Len(stored.items) = 0
  \/ Len(stored.items) \in MinOptions..MaxOptions

\* C29 as stated: the option list of the open form has between 2 and 10
\* entries in every reachable state, whatever stored options value it was
\* opened with.
C29_OptionCountAlwaysInRange == form.open => OptionCountInRange

C29_Step ==
  /\ (\E i \in 1..(MaxOptions + 1) : removeOption(i))
       => Len(form'.options) >= MinOptions
  /\ addOption => Len(form'.options) <= MaxOptions
  /\ (\E i \in 1..(MaxOptions + 1), t \in TextInputs : handleOptionChange(i, t))
       => Len(form'.options) = Len(form.options)

\* C29: when the form is opened with a stored options value that is missing,
\* empty, or an array of 2 to 10 strings or objects, its option list has
\* between 2 and 10 entries in every reachable state; for every stored value
\* removeOption never leaves fewer than 2 entries, addOption never leaves
\* more than 10, and handleOptionChange keeps the number of entries.
C29_OptionCountInRangeWhenStoredInRange ==
  /\ []((form.open /\ StoredInRange(form.stored)) => OptionCountInRange)
  /\ [][C29_Step]_vars

\* a form opened with nine stored options has got its tenth from addOption
C29_Witness ==
  /\ form.open
  /\ form.stored = StringArray(MaxOptions - 1)
  /\ form.edits >= 1
  /\ Len(form.options) = MaxOptions
  /\ form.options[MaxOptions] = <<>>

(***************************************************************************)
(* Properties over create, update and the edit form (SpecEdit).            *)
(***************************************************************************)
\* the positions of the options that are not empty after trimming
KeptPositions(options) == {i \in 1..Len(options) : trim(options[i]) # <<>>}

\* sent holds the kept options of the form, trimmed, in the form's order
CarriesKeptOptions(sent, options) ==
  /\ Len(sent) = Cardinality(KeptPositions(options))
  /\ \A i \in KeptPositions(options) :
       sent[Cardinality({j \in KeptPositions(options) : j <= i})] = trim(options[i])

C30_Step ==
  /\ handleSubmit =>
       /\ ~form.call.sent
       /\ form'.error \in {None, MinOptionsMessage, QuestionMessage}
       /\ form'.call.sent =>
            /\ form'.call.question = trim(form.question)
            /\ form'.call.question # <<>>
            /\ CarriesKeptOptions(form'.call.options, form.options)
            /\ form'.error = None
       /\ ~form'.call.sent => (~form'.isSubmitting /\ form'.error # None)
  /\ updatePollServed =>
       /\ form.reply.state = "none"
       /\ form'.reply.state = "returned"
       /\ form'.reply.error = last'.error
       /\ form'.call = form.call
  /\ handleSubmitResume =>
       /\ ~form'.isSubmitting
       /\ ~form'.call.sent
       /\ form'.reply.state = "none"
       /\ form'.pushed = (form.reply.state = "returned" /\ form.reply.error = None)
       /\ form'.pushed => form'.error = None

\* C30: every updatePoll call of the edit form carries the trimmed, non-empty
\* question and exactly the form's options that are non-empty after trimming,
\* trimmed and in the form's order; a submit clears the previous error first,
\* makes at most one call, navigates only when the result has no error, and
\* ends with isSubmitting false after a refusal, a result or a throw.
C30_SubmitCarriesFormOnce ==
  /\ [][C30_Step]_vars
  /\ [](form.call.sent => form.isSubmitting)
  /\ []((form.open /\ form.isSubmitting) => (form.call.sent \/ form.reply.state # "none"))

\* a padded option and a blank one were typed, the call carried the trimmed
\* option without the blank one, and the form has navigated
C30_Witness ==
  /\ form.pushed
  /\ ~form.isSubmitting
  /\ form.error = None
  /\ \E i \in 1..Len(form.options) : form.options[i] = PadRed
  /\ \E i \in 1..Len(form.options) : form.options[i] = Blank
  /\ \E p \in polls : p.id = form.poll /\ p.options = <<Red, Green>>

\* C11: every stored poll has at least 2 options, in every state reached by
\* createPoll, by updatePoll and by the operations of the edit form.
C11_AtLeastTwoOptions == \A p \in polls : Len(p.options) >= MinOptions

\* the form's update went through and left the poll at the minimum, with
\* options other than the ones it was created with
C11_Witness ==
  /\ last.op = "updatePoll"
  /\ last.error = None
  /\ form.edits >= 1
  /\ \E p \in polls : p.options = <<Blue, Green>>

====
